---- MODULE Spec2Model ----
(***************************************************************************)
(* Model of host/analysis/RawDataConverter/Histogram.cpp: the per-sensor   *)
(* histogram accumulator (occupancy, ToT, relative BCID) with its          *)
(* scan-parameter correlation.                                             *)
(*                                                                         *)
(* Arrays are 0-based in the source and 1-based here: source cell k is     *)
(* data[k + 1].  A pointer is a record [null, data].                       *)
(***************************************************************************)
EXTENDS Integers, Sequences, FiniteSets, TLC

(***************************************************************************)
(* Bounds of the model.                                                    *)
(***************************************************************************)
\* sensor geometry (Histogram.h, not part of the sources): scaled down
RAW_DATA_MAX_COLUMN == 2
RAW_DATA_MAX_ROW == 2
\* width in bits of "unsigned int" / "int" (32 in the build), scaled down
IntWidth == 12
\* longest parameter table / event index table supplied
MaxTable == 3
\* largest event number and boundary supplied
MaxEvent == 2
\* hits ingested in one run
MaxCount == 2

UIntMod == 2 ^ IntWidth
SignBit == 2 ^ (IntWidth - 1)
UShortMod == 2 ^ 16

\* scan-parameter values supplied: two ordinary ones, one with the top bit set
ParValues == {10, 20, SignBit + 10}
\* what a read outside an array can yield
GarbageVals == {20, 7}
Oracles == [crash : BOOLEAN, garbage : GarbageVals]

NullPtr == [null |-> TRUE, data |-> <<>>]
Ptr(d) == [null |-> FALSE, data |-> d]

VARIABLES
  _parInfo,              \* pointer to the caller's ParInfo array (scanParameter of each entry)
  _metaEventIndex,       \* pointer to the caller's event index array
  _lastMetaEventIndex,   \* the cursor
  _parameterValues,      \* std::vector<unsigned int>
  _NparameterValues,
  _minParameterValue,
  _maxParameterValue,
  _occupancy,            \* pointer to the occupancy array
  _relBcid,
  _tot,
  _createOccHist,
  _createRelBCIDhist,
  _createTotHist,
  thrown,                \* what the last call threw (0: it returned)
  crashed,               \* the process died in undefined behaviour
  lastOp,                \* history: the last call
  ingested,              \* history: hits ingested since the occupancy array was last reset
  order,                 \* history: event numbers looked up since the tables were loaded
  rMuArray,              \* the caller's threshold map, one cell per pixel
  rSigmaArray            \* the caller's noise map, one cell per pixel

vars == <<_parInfo, _metaEventIndex, _lastMetaEventIndex, _parameterValues,
          _NparameterValues, _minParameterValue, _maxParameterValue, _occupancy,
          _relBcid, _tot, _createOccHist, _createRelBCIDhist, _createTotHist,
          thrown, crashed, lastOp, ingested, order, rMuArray, rSigmaArray>>

(***************************************************************************)
(* Helpers.                                                                *)
(***************************************************************************)
RECURSIVE SumSeq(_)
SumSeq(s) == IF s = <<>> THEN 0 ELSE Head(s) + SumSeq(Tail(s))

SetMin(S) == CHOOSE x \in S : \A y \in S : x <= y

\* the elements of a set of integers in ascending order
RECURSIVE Ascending(_)
Ascending(S) == IF S = {} THEN <<>> ELSE <<SetMin(S)>> \o Ascending(S \ {SetMin(S)})

Range(s) == {s[i] : i \in 1..Len(s)}

Zeros(n) == [i \in 1..n |-> 0]

\* unsigned int -> int and back, as the conversions of the build do
ToInt(v) == IF v >= SignBit THEN v - UIntMod ELSE v
ToUnsigned(x) == x % UIntMod

(***************************************************************************)
(* Histogram::setParameterLimits                                           *)
(***************************************************************************)
\* std::sort of a vector<unsigned int>
RECURSIVE InsertSorted(_, _)
InsertSorted(v, s) ==
  IF s = <<>> THEN <<v>>
  ELSE IF v <= Head(s) THEN <<v>> \o s
  ELSE <<Head(s)>> \o InsertSorted(v, Tail(s))

RECURSIVE StdSort(_)
StdSort(s) == IF s = <<>> THEN <<>> ELSE InsertSorted(Head(s), StdSort(Tail(s)))

\* std::unique(begin, end) - begin on a sorted vector
StdUniqueCount(s) == Cardinality({i \in 1..Len(s) : i = 1 \/ s[i] # s[i - 1]})

\* std::set<int> tSet(begin, end); _parameterValues.assign(tSet.begin(), tSet.end())
SetIntAssign(t) ==
  LET tSet == Ascending({ToInt(t[i]) : i \in 1..Len(t)})
  IN  [i \in 1..Len(tSet) |-> ToUnsigned(tSet[i])]

\* front() / back() of an empty vector is undefined: the value read is g
setParameterLimits(parInfo, g) ==
  LET tParameterValues == StdSort(parInfo)
  IN  [parameterValues |-> SetIntAssign(tParameterValues),
       min |-> IF tParameterValues = <<>> THEN g ELSE Head(tParameterValues),
       max |-> IF tParameterValues = <<>> THEN g
               ELSE tParameterValues[Len(tParameterValues)],
       N   |-> StdUniqueCount(tParameterValues),
       ub  |-> tParameterValues = <<>>]

(***************************************************************************)
(* Histogram::allocateOccupancyArray, resetOccupancyArray and the 16-bin   *)
(* arrays                                                                  *)
(***************************************************************************)
OccupancyIndex(i, j, k) ==
  i + j * RAW_DATA_MAX_COLUMN + k * RAW_DATA_MAX_COLUMN * RAW_DATA_MAX_ROW

\* the length handed to new[]; the cells hold whatever the heap held (g)
allocateOccupancyArray(n, g) ==
  LET size == (RAW_DATA_MAX_COLUMN - 1) + (RAW_DATA_MAX_ROW - 1) * RAW_DATA_MAX_COLUMN
              + (n - 1) * RAW_DATA_MAX_COLUMN * RAW_DATA_MAX_ROW + 1
  IN  Ptr([c \in 1..size |-> g])

\* mutant: the loop over k stops one slice early
resetOccupancyArray_SkipLastSlice(occ, n) ==
  LET cells == {OccupancyIndex(i, j, k) + 1 :
                  i \in 0..(RAW_DATA_MAX_COLUMN - 1),
                  j \in 0..(RAW_DATA_MAX_ROW - 1),
                  k \in 0..(n - 2)}
  IN  [occ EXCEPT !.data = [c \in DOMAIN occ.data |->
                              IF c \in cells THEN 0 ELSE occ.data[c]]]

resetOccupancyArray(occ, n) ==
  LET cells == {OccupancyIndex(i, j, k) + 1 :
                  i \in 0..(RAW_DATA_MAX_COLUMN - 1),
                  j \in 0..(RAW_DATA_MAX_ROW - 1),
                  k \in 0..(n - 1)}
  IN  [occ EXCEPT !.data = [c \in DOMAIN occ.data |->
                              IF c \in cells THEN 0 ELSE occ.data[c]]]

allocateTotArray(g) == Ptr([c \in 1..16 |-> g])
\* mutant: the loop stops one bin early
resetTotArray_SkipLastBin(a) ==
  [a EXCEPT !.data = [c \in DOMAIN a.data |-> IF c - 1 < 15 THEN 0 ELSE a.data[c]]]
resetTotArray(a) == [a EXCEPT !.data = [c \in DOMAIN a.data |-> IF c - 1 < 16 THEN 0 ELSE a.data[c]]]
allocateRelBcidArray(g) == Ptr([c \in 1..16 |-> g])
resetRelBcidArray(a) == [a EXCEPT !.data = [c \in DOMAIN a.data |-> IF c - 1 < 16 THEN 0 ELSE a.data[c]]]

(***************************************************************************)
(* Histogram::getEventParameter and getParIndex                            *)
(***************************************************************************)
\* _metaEventIndex[k] and _parInfo[k].scanParameter; a read past the end yields g
MetaAt(k, g) ==
  IF k < Len(_metaEventIndex.data) THEN _metaEventIndex.data[k + 1] ELSE g
ParAt(k, g) ==
  IF k < Len(_parInfo.data) THEN _parInfo.data[k + 1] ELSE g

\* the for loop from i on: the first i < _nMetaEventIndexLength-1 whose test holds
RECURSIVE ScanMeta(_, _, _)
ScanMeta(i, e, g) ==
  IF i < (Len(_metaEventIndex.data) - 1) % UIntMod
  THEN IF MetaAt(i + 1, g) > e \/ MetaAt(i + 1, g) < MetaAt(i, g)
       THEN [found |-> TRUE, i |-> i]
       ELSE ScanMeta(i + 1, e, g)
  ELSE [found |-> FALSE, i |-> i]

\* mutant: the cursor is left one past the entry that matched
getEventParameter_CursorPastMatch(cursor, e, g) ==
  LET last == Len(_metaEventIndex.data) - 1
      scan == ScanMeta(cursor, e, g)
  IN  IF _parInfo.null
      THEN [val |-> 0, cursor |-> cursor, thrown |-> 0, segv |-> FALSE, oob |-> FALSE]
      ELSE IF _metaEventIndex.null
      THEN [val |-> 0, cursor |-> cursor, thrown |-> 0, segv |-> TRUE, oob |-> FALSE]
      ELSE IF scan.found
      THEN [val |-> ParAt(scan.i, g), cursor |-> scan.i + 1, thrown |-> 0, segv |-> FALSE,
            oob |-> scan.i >= Len(_parInfo.data)]
      ELSE IF MetaAt(last, g) <= e
      THEN [val |-> ParAt(last, g), cursor |-> cursor, thrown |-> 0, segv |-> FALSE,
            oob |-> last >= Len(_parInfo.data)]
      ELSE [val |-> 0, cursor |-> cursor, thrown |-> 23, segv |-> FALSE, oob |-> FALSE]

\* mutant: the last entry takes only events after its boundary (< for <=)
getEventParameter_StrictLast(cursor, e, g) ==
  LET last == Len(_metaEventIndex.data) - 1
      scan == ScanMeta(cursor, e, g)
  IN  IF _parInfo.null
      THEN [val |-> 0, cursor |-> cursor, thrown |-> 0, segv |-> FALSE, oob |-> FALSE]
      ELSE IF _metaEventIndex.null
      THEN [val |-> 0, cursor |-> cursor, thrown |-> 0, segv |-> TRUE, oob |-> FALSE]
      ELSE IF scan.found
      THEN [val |-> ParAt(scan.i, g), cursor |-> scan.i, thrown |-> 0, segv |-> FALSE,
            oob |-> scan.i >= Len(_parInfo.data)]
      ELSE IF MetaAt(last, g) < e
      THEN [val |-> ParAt(last, g), cursor |-> cursor, thrown |-> 0, segv |-> FALSE,
            oob |-> last >= Len(_parInfo.data)]
      ELSE [val |-> 0, cursor |-> cursor, thrown |-> 23, segv |-> FALSE, oob |-> FALSE]

\* cursor: _lastMetaEventIndex on entry.  Result: the value returned, the cursor
\* afterwards, what was thrown, whether a null pointer was dereferenced
\* (segv), whether an array was read past its end (oob)
getEventParameter(cursor, e, g) ==
  LET last == Len(_metaEventIndex.data) - 1
      scan == ScanMeta(cursor, e, g)
  IN  IF _parInfo.null
      THEN [val |-> 0, cursor |-> cursor, thrown |-> 0, segv |-> FALSE, oob |-> FALSE]
      ELSE IF _metaEventIndex.null
      THEN [val |-> 0, cursor |-> cursor, thrown |-> 0, segv |-> TRUE, oob |-> FALSE]
      ELSE IF scan.found
      THEN [val |-> ParAt(scan.i, g), cursor |-> scan.i, thrown |-> 0, segv |-> FALSE,
            oob |-> scan.i >= Len(_parInfo.data)]
      ELSE IF MetaAt(last, g) <= e
      THEN [val |-> ParAt(last, g), cursor |-> cursor, thrown |-> 0, segv |-> FALSE,
            oob |-> last >= Len(_parInfo.data)]
      ELSE [val |-> 0, cursor |-> cursor, thrown |-> 23, segv |-> FALSE, oob |-> FALSE]

getParIndex(rEventParameter) ==
  LET hits == {i \in 0..(Len(_parameterValues) - 1) :
                 _parameterValues[i + 1] = rEventParameter}
  IN  IF hits = {} THEN 0 ELSE SetMin(hits)

(***************************************************************************)
(* Histogram::addHits                                                      *)
(***************************************************************************)
\* The part of the object addHits works on, with the outcome of the call:
\* thrown (0: none), crash (the process died), ub (undefined behaviour was met),
\* and, for the history variables, done (hits that reached the increments) and
\* order (see NoteLookup).
Work ==
  [cursor |-> _lastMetaEventIndex, occ |-> _occupancy, relBcid |-> _relBcid,
   tot |-> _tot, thrown |-> 0, crash |-> FALSE, ub |-> FALSE, done |-> 0,
   order |-> order]

\* history: were all event numbers looked up so far non-decreasing
NoteLookup(o, e) ==
  IF o.ok /\ e >= o.ev THEN [ok |-> TRUE, ev |-> e] ELSE [ok |-> FALSE, ev |-> 0]

\* line 72-73: the occupancy increment of one hit
IncrementOccupancy(s, tColumnIndex, tRowIndex, tParIndex, orc) ==
  LET k == OccupancyIndex(tColumnIndex, tRowIndex, tParIndex)
  IN  IF ~_createOccHist THEN s
      ELSE IF s.occ.null THEN [s EXCEPT !.crash = TRUE, !.ub = TRUE]
      ELSE IF k >= Len(s.occ.data)
      THEN \* a write past the end of the array: the process dies or the array
           \* keeps its contents
           [s EXCEPT !.crash = orc.crash, !.ub = TRUE]
      ELSE [s EXCEPT !.occ.data[k + 1] = (@ + 1) % UIntMod]

\* line 74-75 and 76-77
IncrementRelBcid(s, tRelBcid) ==
  IF s.crash \/ ~_createRelBCIDhist THEN s
  ELSE [s EXCEPT !.relBcid.data[tRelBcid + 1] = @ + 1]

\* mutant: the bin after the hit's ToT is incremented
IncrementTot_NextBin(s, tTot) ==
  IF s.crash \/ ~_createTotHist THEN s
  ELSE [s EXCEPT !.tot.data[((tTot + 1) % 16) + 1] = @ + 1]

IncrementTot(s, tTot) ==
  IF s.crash \/ ~_createTotHist THEN s
  ELSE [s EXCEPT !.tot.data[tTot + 1] = @ + 1]

\* mutant: the column test lets column RAW_DATA_MAX_COLUMN + 1 pass
AddHit_ColumnOffByOne(s, h, orc) ==
  LET tColumnIndex == (h.column - 1) % UShortMod
      tRowIndex    == (h.row - 1) % UIntMod
      tTot         == h.tot
      tRelBcid     == h.relativeBCID
      ep           == getEventParameter(s.cursor, h.eventNumber, orc.garbage)
      tParIndex    == getParIndex(ep.val)
      s1           == [s EXCEPT !.cursor = ep.cursor, !.ub = @ \/ ep.oob,
                                !.order = NoteLookup(@, h.eventNumber)]
  IN  IF tColumnIndex > RAW_DATA_MAX_COLUMN THEN [s EXCEPT !.thrown = 20]
      ELSE IF tRowIndex > RAW_DATA_MAX_ROW - 1 THEN [s EXCEPT !.thrown = 21]
      ELSE IF tTot > 15 THEN [s EXCEPT !.thrown = 24]
      ELSE IF tRelBcid > 15 THEN [s EXCEPT !.thrown = 25]
      ELSE IF ep.segv \/ (ep.oob /\ orc.crash) THEN [s EXCEPT !.crash = TRUE, !.ub = TRUE]
      ELSE IF ep.thrown # 0
      THEN [s EXCEPT !.thrown = ep.thrown, !.order = NoteLookup(@, h.eventNumber)]
      ELSE IF tParIndex > (_NparameterValues - 1) % UIntMod THEN [s1 EXCEPT !.thrown = 22]
      ELSE LET s2 == IncrementOccupancy(s1, tColumnIndex, tRowIndex, tParIndex, orc)
               s3 == IncrementTot(IncrementRelBcid(s2, tRelBcid), tTot)
           IN  IF s3.crash THEN s3 ELSE [s3 EXCEPT !.done = @ + 1]

\* one iteration of the loop of addHits, for hit h
AddHit(s, h, orc) ==
  LET tColumnIndex == (h.column - 1) % UShortMod
      tRowIndex    == (h.row - 1) % UIntMod
      tTot         == h.tot
      tRelBcid     == h.relativeBCID
      ep           == getEventParameter(s.cursor, h.eventNumber, orc.garbage)
      tParIndex    == getParIndex(ep.val)
      s1           == [s EXCEPT !.cursor = ep.cursor, !.ub = @ \/ ep.oob,
                                !.order = NoteLookup(@, h.eventNumber)]
  IN  IF tColumnIndex > RAW_DATA_MAX_COLUMN - 1 THEN [s EXCEPT !.thrown = 20]
      ELSE IF tRowIndex > RAW_DATA_MAX_ROW - 1 THEN [s EXCEPT !.thrown = 21]
      ELSE IF tTot > 15 THEN [s EXCEPT !.thrown = 24]
      ELSE IF tRelBcid > 15 THEN [s EXCEPT !.thrown = 25]
      ELSE IF ep.segv \/ (ep.oob /\ orc.crash) THEN [s EXCEPT !.crash = TRUE, !.ub = TRUE]
      ELSE IF ep.thrown # 0
      THEN [s EXCEPT !.thrown = ep.thrown, !.order = NoteLookup(@, h.eventNumber)]
      ELSE IF tParIndex > (_NparameterValues - 1) % UIntMod THEN [s1 EXCEPT !.thrown = 22]
      ELSE LET s2 == IncrementOccupancy(s1, tColumnIndex, tRowIndex, tParIndex, orc)
               s3 == IncrementTot(IncrementRelBcid(s2, tRelBcid), tTot)
           IN  IF s3.crash THEN s3 ELSE [s3 EXCEPT !.done = @ + 1]

\* mutant: a hit that fails is skipped and the loop goes on
RECURSIVE AddHitsFrom_SkipFailed(_, _, _)
AddHitsFrom_SkipFailed(s, hits, orc) ==
  IF hits = <<>> \/ s.crash THEN s
  ELSE AddHitsFrom_SkipFailed(AddHit(s, Head(hits), orc), Tail(hits), orc)

\* the loop: hits in input order, left at the first throw
RECURSIVE AddHitsFrom(_, _, _)
AddHitsFrom(s, hits, orc) ==
  IF hits = <<>> \/ s.thrown # 0 \/ s.crash THEN s
  ELSE AddHitsFrom(AddHit(s, Head(hits), orc), Tail(hits), orc)

(***************************************************************************)
(* Histogram::calculateThresholdScanArrays                                 *)
(*                                                                         *)
(* A double is held as the fraction num / den with den = A: every value    *)
(* the method computes is an integer divided by A, and at the magnitudes   *)
(* of the model the rounding of IEEE doubles changes no comparison.  The   *)
(* noise is held without its constant factor sqrt(pi/2).  A cell of the    *)
(* caller's maps that was never written has den = 0.                       *)
(***************************************************************************)
A == 100
Double(num) == [num |-> num, den |-> A]
Unwritten == [num |-> 0, den |-> 0]
CallerMap == [p \in 1..(RAW_DATA_MAX_COLUMN * RAW_DATA_MAX_ROW) |-> Unwritten]

\* line 306: ((double) max - (double) min) / (n - 1), truncated by (int)
StepQuotient ==
  IF _NparameterValues < 2 THEN 0
  ELSE (_maxParameterValue - _minParameterValue) \div (_NparameterValues - 1)
\* (int) of a double beyond INT_MAX is undefined: the value read back is g
CastUndefined == StepQuotient >= SignBit
StepSize(g) == IF CastUndefined THEN g ELSE StepQuotient
\* what the cast can leave in d then: INT_MIN read back as unsigned, or 0
CastOutcomes == IF CastUndefined THEN {SignBit, 0} ELSE {0}

OccAt(i, j, k) == _occupancy.data[OccupancyIndex(i, j, k) + 1]

\* line 334-337
RECURSIVE SumLoop(_, _, _, _)
SumLoop(i, j, k, M) ==
  IF k < _NparameterValues
  THEN SumLoop(i, j, k + 1, (M + OccAt(i, j, k)) % UIntMod)
  ELSE M

\* line 343-348; threshold is held as its numerator over A
RECURSIVE MuLoop(_, _, _, _, _)
MuLoop(i, j, k, threshold, mu) ==
  IF k < _NparameterValues
  THEN MuLoop(i, j, k + 1, threshold,
              [mu1 |-> IF k * A < threshold
                       THEN (mu.mu1 + OccAt(i, j, k)) % UIntMod ELSE mu.mu1,
               mu2 |-> IF k * A > threshold
                       THEN (mu.mu2 + ((A - OccAt(i, j, k)) % UIntMod)) % UIntMod
                       ELSE mu.mu2])
  ELSE mu

\* mutant: the threshold is counted down from the smallest parameter value
PixelScan_FromMin(i, j, d) ==
  LET q_min == _minParameterValue
      M == SumLoop(i, j, 0, 0)
      threshold == q_min * A - d * M
      mu == MuLoop(i, j, 0, threshold, [mu1 |-> 0, mu2 |-> 0])
  IN  [threshold |-> Double(threshold),
       noise |-> Double(d * ((mu.mu1 + mu.mu2) % UIntMod))]

\* line 316-350: the body of the two loops over the pixels, for pixel (i, j)
PixelScan(i, j, d) ==
  LET q_max == _maxParameterValue
      M == SumLoop(i, j, 0, 0)
      threshold == q_max * A - d * M
      mu == MuLoop(i, j, 0, threshold, [mu1 |-> 0, mu2 |-> 0])
  IN  [threshold |-> Double(threshold),
       noise |-> Double(d * ((mu.mu1 + mu.mu2) % UIntMod))]

\* mutant: with fewer than 2 parameter values the maps are cleared
ThresholdScan_ZeroFill(g) ==
  IF _NparameterValues < 2
  THEN [mu |-> [p \in DOMAIN rMuArray |-> Double(0)],
        sigma |-> [p \in DOMAIN rSigmaArray |-> Double(0)]]
  ELSE [mu |-> [p \in DOMAIN rMuArray |->
                  PixelScan((p - 1) % RAW_DATA_MAX_COLUMN,
                            (p - 1) \div RAW_DATA_MAX_COLUMN, StepSize(g)).threshold],
        sigma |-> [p \in DOMAIN rSigmaArray |->
                  PixelScan((p - 1) % RAW_DATA_MAX_COLUMN,
                            (p - 1) \div RAW_DATA_MAX_COLUMN, StepSize(g)).noise]]

\* the two maps after the call; cell i + j * RAW_DATA_MAX_COLUMN is pixel (i, j)
ThresholdScan(g) ==
  IF _NparameterValues < 2
  THEN [mu |-> rMuArray, sigma |-> rSigmaArray]
  ELSE [mu |-> [p \in DOMAIN rMuArray |->
                  PixelScan((p - 1) % RAW_DATA_MAX_COLUMN,
                            (p - 1) \div RAW_DATA_MAX_COLUMN, StepSize(g)).threshold],
        sigma |-> [p \in DOMAIN rSigmaArray |->
                  PixelScan((p - 1) % RAW_DATA_MAX_COLUMN,
                            (p - 1) \div RAW_DATA_MAX_COLUMN, StepSize(g)).noise]]

(***************************************************************************)
(* Histogram::Histogram                                                    *)
(***************************************************************************)
Init ==
  /\ _parInfo = NullPtr
  /\ _metaEventIndex = NullPtr
  /\ _lastMetaEventIndex = 0
  /\ _parameterValues = <<>>
  /\ _NparameterValues = 1
  /\ _minParameterValue = 0
  /\ _maxParameterValue = 0
  /\ _occupancy = NullPtr
  /\ _relBcid = NullPtr
  /\ _tot = NullPtr
  /\ _createOccHist = FALSE
  /\ _createRelBCIDhist = FALSE
  /\ _createTotHist = FALSE
  /\ thrown = 0
  /\ crashed = FALSE
  /\ lastOp = "Histogram"
  /\ ingested = [n |-> 0, clean |-> TRUE]
  /\ order = [ok |-> TRUE, ev |-> 0]
  /\ rMuArray = CallerMap
  /\ rSigmaArray = CallerMap


(***************************************************************************)
(* The calls and their inputs.                                             *)
(***************************************************************************)
ParTables == UNION {[1..n -> ParValues] : n \in 0..MaxTable}
\* boundaries are non-decreasing, followed by entries not yet set (0)
IsMetaTable(m) ==
  \E k \in 1..Len(m) :
    /\ \A i \in 1..(k - 1) : m[i] <= m[i + 1]
    /\ \A i \in (k + 1)..Len(m) : m[i] = 0
MetaTables ==
  {m \in UNION {[1..n -> 0..MaxEvent] : n \in 1..MaxTable} : IsMetaTable(m)}

\* the tables the calls of Spec are given
ApiParTables ==
  {<<>>, <<10>>, <<20, 10>>, <<10, 20, 20>>, <<SignBit + 10, 10>>,
   <<10, SignBit + 10, 20>>} \cap ParTables
ApiMetaTables == {<<0>>, <<0, 1>>, <<0, 1, 2>>} \cap MetaTables

Hit(c, r, t, b, e) ==
  [column |-> c, row |-> r, tot |-> t, relativeBCID |-> b, eventNumber |-> e]

\* hits inside all four ranges, on the first and the last pixel
ValidHits ==
  {Hit(1, 1, 3, 5, e) : e \in 0..MaxEvent}
    \cup {Hit(RAW_DATA_MAX_COLUMN, RAW_DATA_MAX_ROW, 15, 0, e) : e \in 0..MaxEvent}
\* hits with one field outside its range
InvalidHits ==
  {Hit(0, 1, 0, 0, 0), Hit(RAW_DATA_MAX_COLUMN + 1, 1, 0, 0, 0), Hit(1, 0, 0, 0, 0),
   Hit(1, RAW_DATA_MAX_ROW + 1, 0, 0, 0), Hit(1, 1, 16, 0, 0), Hit(1, 1, 0, 16, 0)}
\* the batches handed to addHits: no hit, one hit, a hit of the first pixel
\* followed by a second hit
Batches ==
  {<<>>} \cup {<<h>> : h \in ValidHits \cup InvalidHits}
         \cup {<<Hit(1, 1, 3, 5, e), h>> : e \in 0..MaxEvent, h \in ValidHits}
         \cup {<<Hit(1, 1, 3, 5, 0), h>> : h \in InvalidHits}
         \cup {<<h, Hit(1, 1, 3, 5, 0)>> : h \in InvalidHits}
\* the tables and batches of Spec
CoreParTables == {<<20, 10>>, <<10, 20, 20>>} \cap ParTables
CoreMetaTables == {<<0, 1, 2>>} \cap MetaTables
CoreBatches ==
  {<<h>> : h \in InvalidHits}
    \cup {<<Hit(1, 1, 3, 5, 1)>>, <<Hit(1, 1, 3, 5, 0), Hit(0, 1, 0, 0, 0)>>,
          <<Hit(1, 1, 3, 5, 2), Hit(RAW_DATA_MAX_COLUMN, RAW_DATA_MAX_ROW, 15, 0, 0)>>}

NoOracle == [crash |-> FALSE, garbage |-> CHOOSE g \in GarbageVals : TRUE]
\* the outcomes of a call: one when it meets no undefined behaviour
OraclesFor(ub) == IF ub THEN Oracles ELSE {NoOracle}

Counted(a) == IF a.null THEN 0 ELSE SumSeq(a.data)
MaxOf(S) == CHOOSE x \in S : \A y \in S : y <= x
\* the largest count held anywhere
Fill == MaxOf({Counted(_occupancy), Counted(_relBcid), Counted(_tot), ingested.n})

\* the process died: nothing of the object is left to change
Crash(op) ==
  /\ crashed' = TRUE
  /\ lastOp' = op
  /\ UNCHANGED <<_parInfo, _metaEventIndex, _lastMetaEventIndex, _parameterValues,
                 _NparameterValues, _minParameterValue, _maxParameterValue, _occupancy,
                 _relBcid, _tot, _createOccHist, _createRelBCIDhist, _createTotHist,
                 thrown, ingested, order>>

createOccupancyHist(CreateOccHist) ==
  /\ ~crashed
  /\ UNCHANGED <<rMuArray, rSigmaArray>>
  /\ _createOccHist' = CreateOccHist
  /\ thrown' = 0
  /\ lastOp' = "createOccupancyHist"
  /\ UNCHANGED <<_parInfo, _metaEventIndex, _lastMetaEventIndex, _parameterValues,
                 _NparameterValues, _minParameterValue, _maxParameterValue, _occupancy,
                 _relBcid, _tot, _createRelBCIDhist, _createTotHist, crashed, ingested,
                 order>>

createRelBCIDHist(CreateRelBCIDHist) ==
  /\ ~crashed
  /\ UNCHANGED <<rMuArray, rSigmaArray>>
  /\ _createRelBCIDhist' = CreateRelBCIDHist
  /\ \E g \in GarbageVals : _relBcid' = resetRelBcidArray(allocateRelBcidArray(g))
  /\ thrown' = 0
  /\ lastOp' = "createRelBCIDHist"
  /\ UNCHANGED <<_parInfo, _metaEventIndex, _lastMetaEventIndex, _parameterValues,
                 _NparameterValues, _minParameterValue, _maxParameterValue, _occupancy,
                 _tot, _createOccHist, _createTotHist, crashed, ingested, order>>

createTotHist(CreateTotHist) ==
  /\ ~crashed
  /\ UNCHANGED <<rMuArray, rSigmaArray>>
  /\ _createTotHist' = CreateTotHist
  /\ \E g \in GarbageVals : _tot' = resetTotArray(allocateTotArray(g))
  /\ thrown' = 0
  /\ lastOp' = "createTotHist"
  /\ UNCHANGED <<_parInfo, _metaEventIndex, _lastMetaEventIndex, _parameterValues,
                 _NparameterValues, _minParameterValue, _maxParameterValue, _occupancy,
                 _relBcid, _createOccHist, _createRelBCIDhist, crashed, ingested, order>>

addScanParameter(rParInfo) ==
  /\ ~crashed
  /\ UNCHANGED <<rMuArray, rSigmaArray>>
  /\ \E orc \in OraclesFor(rParInfo = <<>>) :
       LET pl == setParameterLimits(rParInfo, orc.garbage)
       IN  IF pl.ub /\ orc.crash
           THEN Crash("addScanParameter")
           ELSE /\ _parInfo' = Ptr(rParInfo)
                /\ _parameterValues' = pl.parameterValues
                /\ _minParameterValue' = pl.min
                /\ _maxParameterValue' = pl.max
                /\ _NparameterValues' = pl.N
                /\ _occupancy' = resetOccupancyArray(
                                   allocateOccupancyArray(pl.N, orc.garbage), pl.N)
                /\ thrown' = 0
                /\ lastOp' = "addScanParameter"
                /\ ingested' = [n |-> 0, clean |-> TRUE]
                /\ order' = [ok |-> _lastMetaEventIndex = 0, ev |-> 0]
                /\ UNCHANGED <<_metaEventIndex, _lastMetaEventIndex, _relBcid, _tot,
                               _createOccHist, _createRelBCIDhist, _createTotHist,
                               crashed>>

addMetaEventIndex(rMetaEventIndex) ==
  /\ ~crashed
  /\ UNCHANGED <<rMuArray, rSigmaArray>>
  /\ _metaEventIndex' = Ptr(rMetaEventIndex)
  /\ thrown' = 0
  /\ lastOp' = "addMetaEventIndex"
  /\ order' = [ok |-> _lastMetaEventIndex = 0, ev |-> 0]
  /\ UNCHANGED <<_parInfo, _lastMetaEventIndex, _parameterValues, _NparameterValues,
                 _minParameterValue, _maxParameterValue, _occupancy, _relBcid, _tot,
                 _createOccHist, _createRelBCIDhist, _createTotHist, crashed, ingested>>

\* mutant: the parameter count is left as it was
setNoScanParameter_KeepCount ==
  /\ ~crashed
  /\ UNCHANGED <<rMuArray, rSigmaArray>>
  /\ _NparameterValues' = _NparameterValues
  /\ \E g \in GarbageVals :
       _occupancy' = resetOccupancyArray(allocateOccupancyArray(_NparameterValues, g),
                                         _NparameterValues)
  /\ thrown' = 0
  /\ lastOp' = "setNoScanParameter"
  /\ ingested' = [n |-> 0, clean |-> TRUE]
  /\ UNCHANGED <<_parInfo, _metaEventIndex, _lastMetaEventIndex, _parameterValues,
                 _minParameterValue, _maxParameterValue, _relBcid, _tot, _createOccHist,
                 _createRelBCIDhist, _createTotHist, crashed, order>>

setNoScanParameter ==
  /\ ~crashed
  /\ UNCHANGED <<rMuArray, rSigmaArray>>
  /\ _NparameterValues' = 1
  /\ \E g \in GarbageVals :
       _occupancy' = resetOccupancyArray(allocateOccupancyArray(1, g), 1)
  /\ thrown' = 0
  /\ lastOp' = "setNoScanParameter"
  /\ ingested' = [n |-> 0, clean |-> TRUE]
  /\ UNCHANGED <<_parInfo, _metaEventIndex, _lastMetaEventIndex, _parameterValues,
                 _minParameterValue, _maxParameterValue, _relBcid, _tot, _createOccHist,
                 _createRelBCIDhist, _createTotHist, crashed, order>>

\* history: hits ingested since the occupancy array was reset, as long as every
\* call returned and occupancy histogramming was on
NoteIngested(r) ==
  IF ingested.clean /\ r.thrown = 0 /\ _createOccHist
  THEN [n |-> ingested.n + r.done, clean |-> TRUE]
  ELSE [n |-> 0, clean |-> FALSE]

addHits(rHitInfo) ==
  /\ ~crashed
  /\ UNCHANGED <<rMuArray, rSigmaArray>>
  /\ Fill + Len(rHitInfo) <= MaxCount
  /\ \E orc \in OraclesFor(AddHitsFrom(Work, rHitInfo, NoOracle).ub) :
       LET r == AddHitsFrom(Work, rHitInfo, orc)
       IN  IF r.crash
           THEN Crash("addHits")
           ELSE /\ _lastMetaEventIndex' = r.cursor
                /\ _occupancy' = r.occ
                /\ _relBcid' = r.relBcid
                /\ _tot' = r.tot
                /\ thrown' = r.thrown
                /\ lastOp' = "addHits"
                /\ ingested' = NoteIngested(r)
                /\ order' = r.order
                /\ UNCHANGED <<_parInfo, _metaEventIndex, _parameterValues,
                               _NparameterValues, _minParameterValue, _maxParameterValue,
                               _createOccHist, _createRelBCIDhist, _createTotHist,
                               crashed>>

Next ==
  \/ \E b \in BOOLEAN : createOccupancyHist(b)
  \/ \E b \in BOOLEAN : createRelBCIDHist(b)
  \/ \E b \in BOOLEAN : createTotHist(b)
  \/ \E t \in CoreParTables : addScanParameter(t)
  \/ \E m \in CoreMetaTables : addMetaEventIndex(m)
  \/ setNoScanParameter
  \/ \E hits \in CoreBatches : addHits(hits)

Spec == Init /\ [][Next]_vars

(***************************************************************************)
(* The calls that load tables and ingest hits, with every parameter table  *)
(* up to MaxTable entries.  ToT and BCID histogramming stay off.           *)
(***************************************************************************)
NextTables ==
  \/ \E b \in BOOLEAN : createOccupancyHist(b)
  \/ \E t \in ApiParTables : addScanParameter(t)
  \/ \E m \in ApiMetaTables : addMetaEventIndex(m)
  \/ setNoScanParameter
  \/ \E hits \in Batches : addHits(hits)

SpecTables == Init /\ [][NextTables]_vars

(***************************************************************************)
(* Hit ingestion against every pair of index-aligned tables: the state     *)
(* after Histogram(), createOccupancyHist(true), createRelBCIDHist(true),  *)
(* createTotHist(true), addScanParameter(t), addMetaEventIndex(m), and     *)
(* from there on calls of addHits.                                         *)
(***************************************************************************)
InitLookup ==
  \E t \in ParTables, m \in MetaTables :
    /\ Len(t) = Len(m)
    /\ _parInfo = Ptr(t)
    /\ _metaEventIndex = Ptr(m)
    /\ _lastMetaEventIndex = 0
    /\ _parameterValues = setParameterLimits(t, 0).parameterValues
    /\ _NparameterValues = setParameterLimits(t, 0).N
    /\ _minParameterValue = setParameterLimits(t, 0).min
    /\ _maxParameterValue = setParameterLimits(t, 0).max
    /\ _occupancy = resetOccupancyArray(
                      allocateOccupancyArray(setParameterLimits(t, 0).N, 0),
                      setParameterLimits(t, 0).N)
    /\ _relBcid = resetRelBcidArray(allocateRelBcidArray(0))
    /\ _tot = resetTotArray(allocateTotArray(0))
    /\ _createOccHist = TRUE
    /\ _createRelBCIDhist = TRUE
    /\ _createTotHist = TRUE
    /\ thrown = 0
    /\ crashed = FALSE
    /\ lastOp = "addMetaEventIndex"
    /\ ingested = [n |-> 0, clean |-> TRUE]
    /\ order = [ok |-> TRUE, ev |-> 0]
    /\ rMuArray = CallerMap
    /\ rSigmaArray = CallerMap

NextLookup == \E hits \in Batches : addHits(hits)

SpecLookup == InitLookup /\ [][NextLookup]_vars

(***************************************************************************)
(* The threshold scan over the occupancy a run has accumulated: the state  *)
(* after Histogram(), createOccupancyHist(true), addScanParameter(t),      *)
(* addMetaEventIndex(m), possibly setNoScanParameter(), and calls of       *)
(* addHits that left the counts of OccValues in the array.                 *)
(***************************************************************************)
ScanTables ==
  {t \in {<<>>, <<10>>, <<10, 20>>, <<20, 10, 20>>, <<30, 31>>, <<10, 20, 30>>, <<10, 20, 30, 40>>,
          <<10, SignBit + 10>>, <<10, 20, SignBit + 10>>} : Len(t) <= MaxTable}
\* counts of one cell: none, half of A, A, more than A
OccValues == {0, 50, A, A + 1}

calculateThresholdScanArrays ==
  /\ ~crashed
  /\ \E g \in CastOutcomes :
       /\ rMuArray' = ThresholdScan(g).mu
       /\ rSigmaArray' = ThresholdScan(g).sigma
  /\ thrown' = 0
  /\ lastOp' = "calculateThresholdScanArrays"
  /\ UNCHANGED <<_parInfo, _metaEventIndex, _lastMetaEventIndex, _parameterValues,
                 _NparameterValues, _minParameterValue, _maxParameterValue, _occupancy,
                 _relBcid, _tot, _createOccHist, _createRelBCIDhist, _createTotHist,
                 crashed, ingested, order>>

InitThreshold ==
  \E t \in ScanTables, single \in BOOLEAN, fill \in {0, A} :
    LET pl == setParameterLimits(t, NoOracle.garbage)
        n == IF single THEN 1 ELSE pl.N
        plane == RAW_DATA_MAX_COLUMN * RAW_DATA_MAX_ROW
    IN  \E profile \in [0..(n - 1) -> OccValues] :
          /\ _parInfo = Ptr(t)
          /\ _metaEventIndex = Ptr([i \in 1..MaxOf({1, Len(t)}) |-> i - 1])
          /\ _lastMetaEventIndex = 0
          /\ _parameterValues = pl.parameterValues
          /\ _NparameterValues = n
          /\ _minParameterValue = pl.min
          /\ _maxParameterValue = pl.max
          \* the first pixel holds the profile, every other pixel holds fill
          /\ _occupancy = Ptr([c \in 1..(plane * n) |->
                                 IF (c - 1) % plane = 0
                                 THEN profile[(c - 1) \div plane] ELSE fill])
          /\ _relBcid = NullPtr
          /\ _tot = NullPtr
          /\ _createOccHist = TRUE
          /\ _createRelBCIDhist = FALSE
          /\ _createTotHist = FALSE
          /\ thrown = 0
          /\ crashed = FALSE
          /\ lastOp = "addHits"
          /\ ingested = [n |-> 0, clean |-> FALSE]
          /\ order = [ok |-> FALSE, ev |-> 0]
          /\ rMuArray = CallerMap
          /\ rSigmaArray = CallerMap

NextThreshold == calculateThresholdScanArrays

SpecThreshold == InitThreshold /\ [][NextThreshold]_vars

(***************************************************************************)
(* Claims.                                                                 *)
(***************************************************************************)
\* addScanParameter was the last call and it returned
AfterAddScanParameter == lastOp = "addScanParameter" /\ ~crashed

AllCellsZero(a) == \A c \in DOMAIN a.data : a.data[c] = 0

\* C1: with occupancy histogramming on and the occupancy array allocated, after
\* batches of addHits that all returned, the occupancy counters add up to the
\* number of hits ingested since the array was last reset.
C1_SumIsIngested ==
  (~crashed /\ _createOccHist /\ ~_occupancy.null /\ ingested.clean)
    => SumSeq(_occupancy.data) = ingested.n

\* C7: after addScanParameter every occupancy counter is zero and the parameter
\* axis has as many slices as the new table has distinct values.
C7_ReloadResets ==
  AfterAddScanParameter =>
    /\ ~_occupancy.null
    /\ AllCellsZero(_occupancy)
    /\ _NparameterValues = Cardinality(Range(_parInfo.data))
    /\ Len(_occupancy.data) = RAW_DATA_MAX_COLUMN * RAW_DATA_MAX_ROW * _NparameterValues

\* C7 witness: a table with two distinct values was loaded after hits had moved
\* the cursor
C7_Witness ==
  AfterAddScanParameter /\ _lastMetaEventIndex > 0 /\ _NparameterValues = 2

\* C8: after addScanParameter with an empty table the parameter count is 1 and
\* the occupancy array has one slice.
C8_EmptyTableCountsOne ==
  (AfterAddScanParameter /\ _parInfo.data = <<>>)
    => /\ _NparameterValues = 1
       /\ Len(_occupancy.data) = RAW_DATA_MAX_COLUMN * RAW_DATA_MAX_ROW

\* C9: after addScanParameter with a non-empty table the stored value set is
\* strictly ascending, holds exactly the values of the table, has the reported
\* count as its size, the reported minimum first and the reported maximum last.
C9_ValueSetSorted ==
  (AfterAddScanParameter /\ _parInfo.data # <<>>)
    => /\ \A i \in 1..(Len(_parameterValues) - 1) :
            _parameterValues[i] < _parameterValues[i + 1]
       /\ Range(_parameterValues) = Range(_parInfo.data)
       /\ Len(_parameterValues) = _NparameterValues
       /\ _minParameterValue = _parameterValues[1]
       /\ _maxParameterValue = _parameterValues[Len(_parameterValues)]

\* calculateThresholdScanArrays was the last call
AfterThresholdScan == lastOp = "calculateThresholdScanArrays" /\ ~crashed

\* C14: a call of calculateThresholdScanArrays leaves the occupancy, ToT and
\* BCID histograms, the parameter count and the cursor as they were, and with a
\* parameter count below 2 it leaves both output maps as they were.
C14_NoOutputBelowTwo ==
  [][lastOp' = "calculateThresholdScanArrays" =>
       /\ UNCHANGED <<_occupancy, _tot, _relBcid, _NparameterValues, _lastMetaEventIndex>>
       /\ _NparameterValues < 2 => UNCHANGED <<rMuArray, rSigmaArray>>]_vars

\* C14 witness: the scan was called after setNoScanParameter had set the count
\* of a two-value table to 1, and the maps are as the caller handed them in
C14_Witness ==
  /\ AfterThresholdScan /\ _NparameterValues = 1 /\ Len(_parameterValues) = 2
  /\ rMuArray = CallerMap /\ rSigmaArray = CallerMap

\* the pixels (cells of the maps) whose occupancy is A at every parameter index
FullyOn ==
  {p \in 1..(RAW_DATA_MAX_COLUMN * RAW_DATA_MAX_ROW) :
     \A k \in 0..(_NparameterValues - 1) :
       OccAt((p - 1) % RAW_DATA_MAX_COLUMN, (p - 1) \div RAW_DATA_MAX_COLUMN, k) = A}

\* the steps d the estimator can have used: floor((qMax - qMin) / (n - 1)), or
\* what the cast left when that is no int
StepsUsed == IF CastUndefined THEN CastOutcomes ELSE {StepQuotient}

\* C15 as stated: for a pixel with occupancy A at each of the n >= 2 parameter
\* indices the threshold is within d = floor((qMax - qMin)/(n - 1)) of qMax and
\* the noise is 0.
C15_FullyOnNearMax ==
  (AfterThresholdScan /\ _NparameterValues >= 2) =>
    \A p \in FullyOn :
      /\ rMuArray[p].den = A
      /\ rMuArray[p].num <= _maxParameterValue * A
      /\ _maxParameterValue * A - rMuArray[p].num <= StepQuotient * A
      /\ rSigmaArray[p] = Double(0)

\* the parameter indices below a threshold (held as numerator over A)
IndicesBelow(threshold) == {k \in 0..(_NparameterValues - 1) : k * A < threshold}

\* C15 amended: for such a pixel the threshold is qMax - n * d, and the noise is
\* d * (A * number of parameter indices below the threshold) / A, so 0 when no
\* index lies below the threshold; d is the step the estimator used.
C15_FullyOnBelowMin ==
  (AfterThresholdScan /\ _NparameterValues >= 2) =>
    \E d \in StepsUsed :
      \A p \in FullyOn :
        /\ rMuArray[p] = Double((_maxParameterValue - _NparameterValues * d) * A)
        /\ rSigmaArray[p] = Double(d * A * Cardinality(IndicesBelow(rMuArray[p].num)))

\* C15 witness: the scan ran over three parameter values with a pixel at A
\* everywhere
C15_Witness ==
  AfterThresholdScan /\ _NparameterValues = 3 /\ 1 \in FullyOn /\ 2 \notin FullyOn

\* the occupancy of map cell p at parameter index k
OccOf(p, k) == OccAt((p - 1) % RAW_DATA_MAX_COLUMN, (p - 1) \div RAW_DATA_MAX_COLUMN, k)

\* C16: for every pixel, with M the sum of its occupancy and threshold
\* = qMax - d*M/A, mu1 is the sum of the occupancy at the indices k < threshold,
\* mu2 the sum of A - occupancy at the indices k > threshold, each of these
\* terms is non-negative, and the noise is d * (mu1 + mu2) / A.
C16_SumsAsStated ==
  (AfterThresholdScan /\ _NparameterValues >= 2) =>
    \E d \in StepsUsed :
      \A p \in DOMAIN rMuArray :
        LET ks == 0..(_NparameterValues - 1)
            M == SumSeq([i \in 1..Cardinality(ks) |-> OccOf(p, i - 1)])
            threshold == _maxParameterValue * A - d * M
            mu1 == SumSeq([i \in 1..Cardinality(ks) |->
                             IF (i - 1) * A < threshold THEN OccOf(p, i - 1) ELSE 0])
            mu2 == SumSeq([i \in 1..Cardinality(ks) |->
                             IF (i - 1) * A > threshold THEN A - OccOf(p, i - 1) ELSE 0])
        IN  /\ rMuArray[p] = Double(threshold)
            /\ \A k \in ks : k * A > threshold => A - OccOf(p, k) >= 0
            /\ rSigmaArray[p] = Double(d * (mu1 + mu2))

\* both tables are loaded and index-aligned
TablesLoaded ==
  /\ ~_parInfo.null
  /\ ~_metaEventIndex.null
  /\ Len(_parInfo.data) = Len(_metaEventIndex.data)

NonDecreasing(m) == \A i \in 1..(Len(m) - 1) : m[i] <= m[i + 1]

\* the entries (0-based) whose event range holds e
EntriesOf(e) ==
  {i \in 0..(Len(_metaEventIndex.data) - 1) :
     /\ _metaEventIndex.data[i + 1] <= e
     /\ i = Len(_metaEventIndex.data) - 1 \/ e < _metaEventIndex.data[i + 2]}

\* the place of v among the distinct values of the table in ascending order
SortedIndex(v) == Cardinality({w \in Range(_parInfo.data) : w < v})

\* valid hits on every pixel
PixelHits ==
  {Hit(c, r, 3, 5, e) : c \in 1..RAW_DATA_MAX_COLUMN, r \in 1..RAW_DATA_MAX_ROW,
                        e \in 0..MaxEvent}

\* C2: with index-aligned tables and non-decreasing boundaries, as long as event
\* numbers come in non-decreasing order, a valid hit with an event number in the
\* range of entry i adds 1 to the occupancy counter at (column-1, row-1, place of
\* parameter[i] in the sorted distinct values) and changes no other counter.
C2_HitCountsInSortedSlice ==
  (TablesLoaded /\ NonDecreasing(_metaEventIndex.data) /\ order.ok
     /\ _createOccHist /\ ~_occupancy.null)
    => \A h \in PixelHits : \A i \in EntriesOf(h.eventNumber) :
         h.eventNumber >= order.ev =>
           LET r == AddHitsFrom(Work, <<h>>, NoOracle)
               k == OccupancyIndex(h.column - 1, h.row - 1,
                                   SortedIndex(_parInfo.data[i + 1]))
           IN  /\ r.thrown = 0
               /\ r.occ.data = [_occupancy.data EXCEPT ![k + 1] = @ + 1]

\* what a batch leaves in the three histograms
Counts(r) == <<r.occ, r.relBcid, r.tot>>
EventsNonDecreasing(b) == \A i \in 1..(Len(b) - 1) : b[i].eventNumber <= b[i + 1].eventNumber
\* batches of two valid hits and their permutations
PermBatches == {<<h1, h2>> : h1 \in ValidHits, h2 \in ValidHits}
BatchOrders(b) == {b, <<b[2], b[1]>>}

\* C3 as stated: the counts after addHits are the same for every permutation of
\* the batch (of batches that addHits ingests without throwing in either order).
C3_AnyOrderSameCounts ==
  TablesLoaded =>
    \A b \in PermBatches : \A p \in BatchOrders(b) :
      (AddHitsFrom(Work, p, NoOracle).thrown = 0 /\ AddHitsFrom(Work, b, NoOracle).thrown = 0)
        => Counts(AddHitsFrom(Work, p, NoOracle)) = Counts(AddHitsFrom(Work, b, NoOracle))

\* C3 amended: the counts after addHits are the same for every permutation of
\* the batch that leaves the event numbers in non-decreasing order.
C3_OrderedPermutationsSameCounts ==
  TablesLoaded =>
    \A b \in PermBatches : \A p \in BatchOrders(b) :
      (EventsNonDecreasing(b) /\ EventsNonDecreasing(p))
        => Counts(AddHitsFrom(Work, p, NoOracle)) = Counts(AddHitsFrom(Work, b, NoOracle))

\* C3 witness: a batch returned that put one hit on the first and one on the last
\* pixel into the same parameter slice
C3_Witness ==
  /\ TablesLoaded /\ lastOp = "addHits" /\ thrown = 0 /\ ingested.n = 2
  /\ \E k \in 0..(_NparameterValues - 1) :
       /\ _occupancy.data[OccupancyIndex(0, 0, k) + 1] = 1
       /\ _occupancy.data[OccupancyIndex(RAW_DATA_MAX_COLUMN - 1,
                                         RAW_DATA_MAX_ROW - 1, k) + 1] = 1

\* one lookup: getEventParameter, then getParIndex
Lookup(cursor, e) ==
  LET ep == getEventParameter(cursor, e, NoOracle.garbage)
  IN  [cursor |-> ep.cursor, thrown |-> ep.thrown,
       index |-> IF ep.thrown = 0 THEN getParIndex(ep.val) ELSE 0]

\* the lookups of a sequence of event numbers from a cursor on: what each
\* returned or threw, and the cursor afterwards
RECURSIVE Pass(_, _)
Pass(cursor, es) ==
  IF es = <<>> THEN [cursor |-> cursor, out |-> <<>>]
  ELSE LET l == Lookup(cursor, Head(es))
           rest == Pass(l.cursor, Tail(es))
       IN  [cursor |-> rest.cursor, out |-> <<<<l.thrown, l.index>>>> \o rest.out]

EventSeqs ==
  {es \in UNION {[1..n -> 0..MaxEvent] : n \in 1..3} : NonDecreasing(es)}

\* C4 as stated: a second pass over the same non-decreasing event numbers gives
\* every event number the parameter index of the first pass.
C4_SecondPassSame ==
  TablesLoaded =>
    \A es \in EventSeqs :
      Pass(Pass(_lastMetaEventIndex, es).cursor, es).out = Pass(_lastMetaEventIndex, es).out

\* C4 amended: it does when the first pass leaves the cursor where the lookup of
\* its first event number left it.
C4_SecondPassSameIfCursorStayed ==
  TablesLoaded =>
    \A es \in EventSeqs :
      Pass(_lastMetaEventIndex, es).cursor = Pass(_lastMetaEventIndex, <<es[1]>>).cursor
        => Pass(Pass(_lastMetaEventIndex, es).cursor, es).out
             = Pass(_lastMetaEventIndex, es).out

\* C4 witness: two hits were looked up in order and moved the cursor
C4_Witness ==
  /\ TablesLoaded /\ lastOp = "addHits" /\ thrown = 0
  /\ order.ok /\ ingested.n = 2 /\ _lastMetaEventIndex > 0

\* no pair from the cursor on passes the test of the scan, and the last boundary
\* is beyond the event number
NothingResolves(cursor, e) ==
  /\ \A i \in cursor..(Len(_metaEventIndex.data) - 2) :
       ~(\/ _metaEventIndex.data[i + 2] > e
         \/ _metaEventIndex.data[i + 2] < _metaEventIndex.data[i + 1])
  /\ _metaEventIndex.data[Len(_metaEventIndex.data)] > e

\* C10: getEventParameter throws 23 exactly when nothing resolves; the hit then
\* changes no counter and not the cursor; otherwise the value of a table entry
\* is returned.
C10_CorrelationError ==
  TablesLoaded =>
    \A h \in ValidHits :
      LET ep == getEventParameter(_lastMetaEventIndex, h.eventNumber, NoOracle.garbage)
          r  == AddHit(Work, h, NoOracle)
      IN  /\ ep.thrown = 23 <=> NothingResolves(_lastMetaEventIndex, h.eventNumber)
          /\ ep.thrown \in {0, 23}
          /\ ep.thrown = 23 =>
               /\ r.thrown = 23
               /\ Counts(r) = <<_occupancy, _relBcid, _tot>>
               /\ r.cursor = _lastMetaEventIndex
          /\ ep.thrown = 0 => ep.val \in Range(_parInfo.data)

\* C10 witness: addHits ended in the correlation error
C10_Witness == TablesLoaded /\ lastOp = "addHits" /\ thrown = 23

\* the hit lies outside one of the four ranges
OutOfRange(h) ==
  \/ h.column \notin 1..RAW_DATA_MAX_COLUMN
  \/ h.row \notin 1..RAW_DATA_MAX_ROW
  \/ h.tot \notin 0..15
  \/ h.relativeBCID \notin 0..15

\* hit j is the first of batch b outside a range
FirstOutOfRange(b, j) == OutOfRange(b[j]) /\ \A i \in 1..(j - 1) : ~OutOfRange(b[i])

\* C5: when hit j fails its column, row, ToT or BCID check the call throws, and
\* the histograms and the cursor are those that hits 1..j-1 alone leave: each of
\* these is counted once, the failing hit and the hits after it are not.
C5_FailingHitAborts ==
  \A b \in Batches : \A j \in 1..Len(b) :
    \A orc \in OraclesFor(AddHitsFrom(Work, b, NoOracle).ub) :
    FirstOutOfRange(b, j) =>
      LET r == AddHitsFrom(Work, b, orc)
          p == AddHitsFrom(Work, SubSeq(b, 1, j - 1), orc)
      IN  ~p.crash =>
            /\ ~r.crash /\ r.thrown # 0
            /\ Counts(r) = Counts(p)
            /\ r.cursor = p.cursor
            /\ p.thrown = 0 =>
                 /\ r.thrown \in {20, 21, 24, 25}
                 /\ _createTotHist => Counted(r.tot) = Counted(_tot) + (j - 1)
                 /\ _createRelBCIDhist => Counted(r.relBcid) = Counted(_relBcid) + (j - 1)
                 /\ (_createOccHist /\ _NparameterValues > 0)
                      => Counted(r.occ) = Counted(_occupancy) + (j - 1)

\* C5 witness: addHits threw on a hit outside a range with a hit counted before
C5_Witness ==
  /\ lastOp = "addHits" /\ thrown = 20
  /\ Counted(_occupancy) = 1 /\ Counted(_tot) = 1 /\ Counted(_relBcid) = 1

\* hits with every combination of fields inside, at the edge of and outside
\* their ranges
FieldHits ==
  {Hit(c, r, t, b, 1) : c \in 0..(RAW_DATA_MAX_COLUMN + 1), r \in 0..(RAW_DATA_MAX_ROW + 1),
                        t \in {0, 15, 16}, b \in {0, 15, 16}}

\* C6: a hit is rejected with 20 iff its column is outside [1, MAX_COLUMN],
\* otherwise with 21 iff its row is outside [1, MAX_ROW], otherwise with 24 iff
\* ToT > 15, otherwise with 25 iff relative BCID > 15; a hit inside all four
\* ranges raises none of the four.
C6_ValidationOrder ==
  \A h \in FieldHits : \A orc \in OraclesFor(AddHit(Work, h, NoOracle).ub) :
    LET t == AddHit(Work, h, orc).thrown
        colOk == h.column \in 1..RAW_DATA_MAX_COLUMN
        rowOk == h.row \in 1..RAW_DATA_MAX_ROW
        totOk == h.tot <= 15
        bcidOk == h.relativeBCID <= 15
    IN  /\ t = 20 <=> ~colOk
        /\ colOk => (t = 21 <=> ~rowOk)
        /\ (colOk /\ rowOk) => (t = 24 <=> ~totOk)
        /\ (colOk /\ rowOk /\ totOk) => (t = 25 <=> ~bcidOk)
        /\ (colOk /\ rowOk /\ totOk /\ bcidOk) => t \notin {20, 21, 24, 25}

\* C6 witness: addHits rejected a hit for its BCID, the last of the four checks
C6_Witness == lastOp = "addHits" /\ thrown = 25

\* the lookup of hit h returned a value: it neither threw nor died
Resolved(h, orc) ==
  LET ep == getEventParameter(_lastMetaEventIndex, h.eventNumber, orc.garbage)
  IN  ep.thrown = 0 /\ ~ep.segv /\ ~(ep.oob /\ orc.crash)
\* the parameter index the lookup of hit h resolves to
ResolvedIndex(h, orc) ==
  getParIndex(getEventParameter(_lastMetaEventIndex, h.eventNumber, orc.garbage).val)

\* C11: a valid hit whose resolved parameter index is outside
\* [0, parameter count - 1] fails with 22 and changes no counter; one whose index
\* is inside never fails with 22.
C11_IndexChecked ==
  ~crashed =>
    \A h \in ValidHits : \A orc \in OraclesFor(AddHit(Work, h, NoOracle).ub) :
      Resolved(h, orc) =>
        LET r == AddHit(Work, h, orc)
            inside == ResolvedIndex(h, orc) \in 0..(_NparameterValues - 1)
        IN  /\ ~inside => (r.thrown = 22 /\ Counts(r) = <<_occupancy, _relBcid, _tot>>)
            /\ inside => r.thrown # 22

\* C12: a call of setNoScanParameter leaves the parameter count at 1 and the
\* occupancy array at one slice of zeros, and leaves the ToT and BCID histograms
\* and the three enable flags as they were.
C12_SingleParameter ==
  [][(lastOp' = "setNoScanParameter" /\ ~crashed') =>
       /\ _NparameterValues' = 1
       /\ ~_occupancy'.null
       /\ Len(_occupancy'.data) = RAW_DATA_MAX_COLUMN * RAW_DATA_MAX_ROW
       /\ \A c \in DOMAIN _occupancy'.data : _occupancy'.data[c] = 0
       /\ UNCHANGED <<_tot, _relBcid, _createOccHist, _createRelBCIDhist,
                      _createTotHist>>]_vars

\* C12 witness: setNoScanParameter was called with a two-value table loaded,
\* after a hit had been counted
C12_Witness ==
  /\ lastOp = "setNoScanParameter" /\ ~crashed
  /\ Len(_parameterValues) = 2 /\ _createOccHist /\ Counted(_tot) = 1

\* valid hits with every ToT and every relative BCID
BinHits == {Hit(1, 1, v, 15 - v, e) : v \in 0..15, e \in {0, 1}}

\* C13: a valid hit that is ingested adds exactly 1 to the ToT bin of its ToT
\* when ToT histogramming is on, and to the BCID bin of its relative BCID when
\* BCID histogramming is on, and changes no other bin of the two histograms.
C13_OneBinPerHit ==
  ~crashed =>
    \A h \in BinHits : \A orc \in OraclesFor(AddHit(Work, h, NoOracle).ub) :
      LET r == AddHit(Work, h, orc)
      IN  (r.thrown = 0 /\ ~r.crash) =>
            /\ IF _createTotHist
               THEN r.tot.data = [_tot.data EXCEPT ![h.tot + 1] = @ + 1]
               ELSE r.tot = _tot
            /\ IF _createRelBCIDhist
               THEN r.relBcid.data = [_relBcid.data EXCEPT ![h.relativeBCID + 1] = @ + 1]
               ELSE r.relBcid = _relBcid

\* C13 witness: a hit with ToT 3 and relative BCID 5 was counted in both
\* histograms
C13_Witness ==
  /\ lastOp = "addHits" /\ thrown = 0 /\ ~crashed
  /\ _createTotHist /\ _createRelBCIDhist
  /\ _tot.data[3 + 1] = 1 /\ _relBcid.data[5 + 1] = 1

\* the tables, the parameter count and the occupancy array are those of an
\* instance that has just been given these tables
FreshlyLoaded ==
  /\ lastOp = "addMetaEventIndex" /\ ~crashed /\ TablesLoaded
  /\ _NparameterValues = Cardinality(Range(_parInfo.data))
  /\ ~_occupancy.null
  /\ Len(_occupancy.data) = RAW_DATA_MAX_COLUMN * RAW_DATA_MAX_ROW * _NparameterValues
  /\ AllCellsZero(_occupancy)

\* C17: after the tables were replaced, addHits throws what it throws on a new
\* instance with the same flags and tables (whose cursor is 0) and leaves the
\* same occupancy counts.
C17_ReloadAsFresh ==
  FreshlyLoaded =>
    \A b \in Batches :
      LET r == AddHitsFrom(Work, b, NoOracle)
          f == AddHitsFrom([Work EXCEPT !.cursor = 0], b, NoOracle)
      IN  r.thrown = f.thrown /\ r.crash = f.crash /\ r.occ = f.occ

\* C18: whenever a valid hit gets as far as the occupancy increment, the
\* occupancy array is allocated and the flattened index lies inside it.
C18_IncrementInsideArray ==
  (~crashed /\ _createOccHist) =>
    \A h \in ValidHits : \A orc \in OraclesFor(AddHit(Work, h, NoOracle).ub) :
      (Resolved(h, orc) /\ AddHit(Work, h, orc).thrown # 22) =>
        /\ ~_occupancy.null
        /\ OccupancyIndex(h.column - 1, h.row - 1, ResolvedIndex(h, orc))
             < Len(_occupancy.data)

\* the entry at which the forward scan from the cursor stops for event e
ScanStops(e) ==
  {i \in _lastMetaEventIndex..(Len(_metaEventIndex.data) - 2) :
     /\ \/ _metaEventIndex.data[i + 2] > e
        \/ _metaEventIndex.data[i + 2] < _metaEventIndex.data[i + 1]
     /\ \A j \in _lastMetaEventIndex..(i - 1) :
          ~(\/ _metaEventIndex.data[j + 2] > e
            \/ _metaEventIndex.data[j + 2] < _metaEventIndex.data[j + 1])}

\* C19 as stated: the cursor never decreases, after every lookup that returned
\* it is at most table length - 2, and when the lookup stopped inside the
\* forward scan it is the index of the entry whose value was returned.
C19_CursorBelowLast ==
  (TablesLoaded /\ ~crashed) =>
    \A e \in 0..MaxEvent :
      LET ep == getEventParameter(_lastMetaEventIndex, e, NoOracle.garbage)
      IN  ep.thrown = 0 =>
            /\ ep.cursor >= _lastMetaEventIndex
            /\ ep.cursor <= Len(_metaEventIndex.data) - 2
            /\ \A i \in ScanStops(e) :
                 ep.cursor = i /\ ep.val = _parInfo.data[i + 1]

\* C19 amended: the cursor never decreases; a lookup that stopped inside the
\* forward scan leaves it at the index of the entry whose value was returned,
\* which is at most table length - 2; a lookup that the last entry resolved
\* leaves it where it was.
C19_CursorForward ==
  /\ [][_lastMetaEventIndex' >= _lastMetaEventIndex]_vars
  /\ []((TablesLoaded /\ ~crashed) =>
         \A e \in 0..MaxEvent :
           LET ep == getEventParameter(_lastMetaEventIndex, e, NoOracle.garbage)
           IN  ep.thrown = 0 =>
                 /\ ep.cursor >= _lastMetaEventIndex
                 /\ \A i \in ScanStops(e) :
                      /\ ep.cursor = i
                      /\ i <= Len(_metaEventIndex.data) - 2
                      /\ ep.val = _parInfo.data[i + 1]
                 /\ ScanStops(e) = {} => ep.cursor = _lastMetaEventIndex)

\* C19 witness: a lookup stopped inside the forward scan and moved the cursor
C19_Witness ==
  /\ TablesLoaded /\ ~crashed /\ lastOp = "addHits" /\ thrown = 0
  /\ _lastMetaEventIndex > 0

\* C20: createTotHist leaves 16 ToT bins of zero and createRelBCIDHist 16 BCID
\* bins of zero, for either argument, and each leaves the other two histograms
\* as they were; createOccupancyHist changes the occupancy flag and nothing
\* else of the object.
C20_CreateResets ==
  [][/\ lastOp' = "createTotHist" =>
          /\ ~_tot'.null /\ Len(_tot'.data) = 16
          /\ \A c \in DOMAIN _tot'.data : _tot'.data[c] = 0
          /\ UNCHANGED <<_relBcid, _occupancy>>
     /\ lastOp' = "createRelBCIDHist" =>
          /\ ~_relBcid'.null /\ Len(_relBcid'.data) = 16
          /\ \A c \in DOMAIN _relBcid'.data : _relBcid'.data[c] = 0
          /\ UNCHANGED <<_tot, _occupancy>>
     /\ lastOp' = "createOccupancyHist" =>
          UNCHANGED <<_parInfo, _metaEventIndex, _lastMetaEventIndex, _parameterValues,
                      _NparameterValues, _minParameterValue, _maxParameterValue,
                      _occupancy, _relBcid, _tot, _createRelBCIDhist, _createTotHist>>]_vars

\* C20 witness: createTotHist(false) was called while the BCID histogram held a
\* count
C20_Witness ==
  /\ lastOp = "createTotHist" /\ ~_createTotHist /\ ~crashed
  /\ Counted(_relBcid) = 1 /\ AllCellsZero(_tot)

====
